---- MODULE Spec2Model ----
(***************************************************************************)
(* A model of network_mbedtls_wrapper.c, the TLS transport adapter of the  *)
(* AWS IoT device SDK port for the nRF52840.                               *)
(*                                                                         *)
(* One Network object (pNetwork) is modelled.  Every public function is a  *)
(* sequence of steps driven by the program counter pc; the TLS engine,     *)
(* the certificate store and the deadline timer are the environment and    *)
(* answer every call with one of the results their interface allows.       *)
(* The caller makes one call at a time and writes, reads and disconnects   *)
(* only on a session whose last iot_tls_connect returned SUCCESS; connect, *)
(* is_connected and destroy are called in every state of the session.      *)
(* Host name, port and the private-key location are carried by the code    *)
(* but never tested by it, so they are not part of the state.              *)
(***************************************************************************)
EXTENDS Integers, Sequences, FiniteSets

(* ------------------------------------------------------------------ *)
(* Bounds of the model                                                 *)
(* ------------------------------------------------------------------ *)
\* longest payload / read buffer handed to iot_tls_write / iot_tls_read
MaxLen == 3
\* verification-result bitmasks the engine may report are 0..MaxVerifyResult
MaxVerifyResult == 1
\* the handshake timeout a caller passes is IOT_SSL_READ_TIMEOUT, or
\* MaxTimeoutFactor times as long
MaxTimeoutFactor == 2

(* ------------------------------------------------------------------ *)
(* Program constants                                                   *)
(* ------------------------------------------------------------------ *)
IOT_SSL_READ_TIMEOUT == 10
\* results of the engine, as the code compares them
MBEDTLS_ERR_SSL_WANT_READ == -26880
MBEDTLS_ERR_SSL_WANT_WRITE == -26752
MBEDTLS_ERR_SSL_TIMEOUT == -26624
MBEDTLS_ERR_X509_CERT_VERIFY_FAILED == -9984
MBEDTLS_ERR_NET_SOCKET_FAILED == -66
MBEDTLS_ERR_NET_UNKNOWN_HOST == -82
MBEDTLS_ERR_NET_CONNECT_FAILED == -68
\* any result the code has no case for (a reset connection)
MBEDTLS_ERR_OTHER == -80

Objects == {"server_fd", "ssl", "conf", "ctr_drbg", "cacert", "clicert", "pkey", "entropy"}

Timeouts == {IOT_SSL_READ_TIMEOUT, IOT_SSL_READ_TIMEOUT * MaxTimeoutFactor}

\* TLSConnectParams, as _iot_tls_set_connect_params stores them; a location
\* is TRUE when the pointer is not NULL
ParamSets ==
    [pRootCALocation : BOOLEAN, pDeviceCertLocation : BOOLEAN,
     ServerVerificationFlag : BOOLEAN, timeout_ms : Timeouts]

VerifyResults == 0..MaxVerifyResult

HandshakeResults ==
    {0, MBEDTLS_ERR_SSL_WANT_READ, MBEDTLS_ERR_SSL_WANT_WRITE,
     MBEDTLS_ERR_X509_CERT_VERIFY_FAILED, MBEDTLS_ERR_SSL_TIMEOUT, MBEDTLS_ERR_OTHER}

NetConnectResults ==
    {0, MBEDTLS_ERR_NET_SOCKET_FAILED, MBEDTLS_ERR_NET_UNKNOWN_HOST,
     MBEDTLS_ERR_NET_CONNECT_FAILED, MBEDTLS_ERR_OTHER}

\* what mbedtls_ssl_write may answer when asked to send n bytes
WriteResults(n) ==
    (1..n) \cup {0, MBEDTLS_ERR_SSL_WANT_READ, MBEDTLS_ERR_SSL_WANT_WRITE, MBEDTLS_ERR_OTHER}

\* what mbedtls_ssl_read may answer when asked for n bytes
ReadResults(n) ==
    (1..n) \cup {0, MBEDTLS_ERR_SSL_WANT_READ, MBEDTLS_ERR_SSL_WANT_WRITE,
                 MBEDTLS_ERR_SSL_TIMEOUT, MBEDTLS_ERR_OTHER}

\* what mbedtls_ssl_close_notify may answer
CloseNotifyResults ==
    {0, MBEDTLS_ERR_SSL_WANT_READ, MBEDTLS_ERR_SSL_WANT_WRITE, MBEDTLS_ERR_OTHER}

VARIABLES
    pc,               \* where the running call stands; "idle" between calls
    session,          \* lifecycle of the session as the caller sees it
    tlsConnectParams, \* pNetwork->tlsConnectParams
    flags,            \* pNetwork->tlsDataParams.flags
    obj,              \* state of each engine object of tlsDataParams
    conf,             \* what has been installed in tlsDataParams.conf
    ssl,              \* what has been bound to tlsDataParams.ssl
    ret,              \* the local variable ret of the running call
    cl,               \* what the running iot_tls_connect has done so far
    wr,               \* frame of iot_tls_write, with what the engine accepted
    rd,               \* frame of iot_tls_read, with what the engine delivered
    timerExpired,     \* has_timer_expired(timer) of the running call
    lastOp,           \* the call that is running, or returned last
    lastRet           \* the IoT_Error_t it returned; "running" until then

vars ==
    <<pc, session, tlsConnectParams, flags, obj, conf, ssl, ret, cl, wr, rd,
      timerExpired, lastOp, lastRet>>

netVars == <<tlsConnectParams, flags>>
engVars == <<obj, conf, ssl>>
ioVars == <<wr, rd, timerExpired>>

(* ------------------------------------------------------------------ *)
(* Values                                                              *)
(* ------------------------------------------------------------------ *)
\* mbedtls_ssl_config_init / mbedtls_ssl_config_free: nothing installed
ConfBlank ==
    [defaults |-> FALSE, verify_cb |-> FALSE, authmode |-> "unset", rng |-> FALSE,
     ca_chain |-> FALSE, own_cert |-> FALSE, read_timeout |-> 0]

\* mbedtls_ssl_init / mbedtls_ssl_free: nothing bound
SslBlank == [setup |-> FALSE, hostname |-> FALSE, bio |-> "none"]

\* nothing done yet by iot_tls_connect: the stage the call has reached,
\* whether the handshake step was called and its last result, whether the
\* verification result was read back, and the verification flag the call
\* started with
ConnectBlank ==
    [hsRet |-> 0, hsCalls |-> FALSE, verifyRead |-> FALSE, stage |-> "none",
     flagGiven |-> FALSE]

\* the payload handed to iot_tls_write: byte i carries the marker i, which is
\* what tells any two offsets apart; the code never looks at the bytes
Payload(len) == [i \in 1..len |-> i]

WriteBlank ==
    [len |-> 0, written_so_far |-> 0, frags |-> 0, isErrorFlag |-> FALSE,
     written_len |-> 0, sent |-> <<>>, off |-> 0, n |-> 0, calls |-> FALSE,
     expiredOnEntry |-> FALSE]

ReadBlank ==
    [L |-> 0, len |-> 0, pMsg |-> 0, rxLen |-> 0, read_len |-> 0, read_len0 |-> 0,
     buf |-> <<>>, delivered |-> 0, calls |-> FALSE, zeroSeen |-> FALSE,
     fatalSeen |-> FALSE, n |-> 0, expiredOnEntry |-> FALSE]

Init ==
    /\ pc = "idle"
    /\ session = "Idle"
    /\ tlsConnectParams \in ParamSets
    /\ flags = 0
    /\ obj = [o \in Objects |-> "raw"]
    /\ conf = ConfBlank
    /\ ssl = SslBlank
    /\ ret = 0
    /\ cl = ConnectBlank
    /\ wr = WriteBlank
    /\ rd = ReadBlank
    /\ timerExpired = FALSE
    /\ lastOp = "iot_tls_init"
    /\ lastRet = "SUCCESS"

\* a call of op starts
Call(op) ==
    /\ pc = "idle"
    /\ lastOp' = op
    /\ lastRet' = "running"

\* the running call returns code to its caller
Return(op, code) ==
    /\ pc' = "idle"
    /\ lastOp' = op
    /\ lastRet' = code

(* ------------------------------------------------------------------ *)
(* iot_tls_connect                                                     *)
(* ------------------------------------------------------------------ *)
\* the lifecycle state a returning iot_tls_connect leaves the session in
SessionAfterConnect(code) == IF code = "SUCCESS" THEN "Established" ELSE "Failed"

ConnectReturn(code) ==
    /\ Return("iot_tls_connect", code)
    /\ session' = SessionAfterConnect(code)

\* lines 184-186: no Network object, nothing is touched
ConnectNull ==
    /\ pc = "idle"
    /\ Return("iot_tls_connect", "NULL_VALUE_ERROR")
    /\ UNCHANGED <<session, netVars, engVars, ret, cl, ioVars>>

\* lines 196-205: the engine objects iot_tls_connect initialises before its
\* first engine call that can fail
ConnectInitialised ==
    {"server_fd", "ssl", "conf", "ctr_drbg", "cacert", "clicert", "pkey", "entropy"}

\* lines 188-205: store the caller's parameters when there are any, then
\* initialise every engine object, whatever it holds.  A call with params =
\* NULL keeps the stored parameters: it is the call whose params are the
\* stored ones
ConnectEnter ==
    /\ Call("iot_tls_connect")
    /\ \E params \in ParamSets :
         /\ tlsConnectParams' = params
         /\ cl' = [ConnectBlank EXCEPT !.stage = "init",
                      !.flagGiven = params.ServerVerificationFlag]
    /\ obj' = [o \in Objects |-> IF o \in ConnectInitialised THEN "init" ELSE obj[o]]
    /\ conf' = ConfBlank
    /\ ssl' = SslBlank
    /\ wr' = WriteBlank
    /\ rd' = ReadBlank
    /\ timerExpired' = FALSE
    /\ ret' = 0
    /\ session' = "Connecting"
    /\ pc' = "c_seed"
    /\ UNCHANGED <<flags>>

\* lines 208-222 followed at once by the transport of line 274, the loads of
\* lines 229-269 left out
ConnectSeed_ThenTransport ==
    /\ pc = "c_seed"
    /\ cl' = [cl EXCEPT !.stage = "seed"]
    /\ \E addSource \in {0, -1}, seed \in {0, -1} :
         IF addSource # 0
         THEN /\ ConnectReturn("NETWORK_MBEDTLS_ERR_CTR_DRBG_ENTROPY_SOURCE_FAILED")
              /\ obj' = obj
              /\ ret' = addSource
         ELSE IF seed # 0
         THEN /\ ConnectReturn("NETWORK_MBEDTLS_ERR_CTR_DRBG_ENTROPY_SOURCE_FAILED")
              /\ obj' = [obj EXCEPT !["entropy"] = "live"]
              /\ ret' = seed
         ELSE /\ pc' = "c_net"
              /\ obj' = [obj EXCEPT !["entropy"] = "live", !["ctr_drbg"] = "live"]
              /\ ret' = seed
              /\ UNCHANGED <<session, lastOp, lastRet>>
    /\ UNCHANGED <<netVars, conf, ssl, ioVars>>

\* lines 208-222: register the entropy source, seed the generator
ConnectSeed ==
    /\ pc = "c_seed"
    /\ cl' = [cl EXCEPT !.stage = "seed"]
    /\ \E addSource \in {0, -1}, seed \in {0, -1} :
         IF addSource # 0
         THEN /\ ConnectReturn("NETWORK_MBEDTLS_ERR_CTR_DRBG_ENTROPY_SOURCE_FAILED")
              /\ obj' = obj
              /\ ret' = addSource
         ELSE IF seed # 0
         THEN /\ ConnectReturn("NETWORK_MBEDTLS_ERR_CTR_DRBG_ENTROPY_SOURCE_FAILED")
              /\ obj' = [obj EXCEPT !["entropy"] = "live"]
              /\ ret' = seed
         ELSE /\ pc' = "c_rootca"
              /\ obj' = [obj EXCEPT !["entropy"] = "live", !["ctr_drbg"] = "live"]
              /\ ret' = seed
              /\ UNCHANGED <<session, lastOp, lastRet>>
    /\ UNCHANGED <<netVars, conf, ssl, ioVars>>

\* line 243 forgotten: the verification flag is left as the caller passed it
ClearVerification_Kept(p) == p

\* line 243: the stored parameters once the verification flag is cleared
ClearVerification(p) == [p EXCEPT !.ServerVerificationFlag = FALSE]

\* lines 261 and 267 returning the code of the device certificate
IdentityError_KeyAsCert(artifact) ==
    IF artifact = "rootca" THEN "NETWORK_X509_ROOT_CRT_PARSE_ERROR"
    ELSE "NETWORK_X509_DEVICE_CRT_PARSE_ERROR"

\* lines 233, 238, 251, 256, 261, 267: the code returned when an identity
\* artifact cannot be read or parsed
IdentityError(artifact) ==
    IF artifact = "rootca" THEN "NETWORK_X509_ROOT_CRT_PARSE_ERROR"
    ELSE IF artifact = "devcert" THEN "NETWORK_X509_DEVICE_CRT_PARSE_ERROR"
    ELSE "NETWORK_PK_PRIVATE_KEY_PARSE_ERROR"

\* lines 229-244: load the root CA when a location was given; without one the
\* stored verification flag is cleared
ConnectLoadRootCA ==
    /\ pc = "c_rootca"
    /\ cl' = [cl EXCEPT !.stage = "rootca"]
    /\ IF tlsConnectParams.pRootCALocation
       THEN \E readfile \in {0, -1}, parse \in {0, 1, -1} :
              IF readfile < 0
              THEN /\ ConnectReturn(IdentityError("rootca"))
                   /\ ret' = readfile
                   /\ UNCHANGED <<obj, tlsConnectParams>>
              ELSE IF parse < 0
              THEN /\ ConnectReturn(IdentityError("rootca"))
                   /\ ret' = parse
                   /\ UNCHANGED <<obj, tlsConnectParams>>
              ELSE /\ pc' = "c_devcert"
                   /\ obj' = [obj EXCEPT !["cacert"] = "live"]
                   /\ ret' = parse
                   /\ UNCHANGED <<tlsConnectParams, session, lastOp, lastRet>>
       ELSE /\ tlsConnectParams' = ClearVerification(tlsConnectParams)
            /\ pc' = "c_devcert"
            /\ UNCHANGED <<obj, ret, session, lastOp, lastRet>>
    /\ UNCHANGED <<flags, conf, ssl, ioVars>>

\* lines 246-269: load the device certificate and its private key when a
\* certificate location was given; the stage tells the artifact the call
\* looked up last
ConnectLoadDevice ==
    /\ pc = "c_devcert"
    /\ IF tlsConnectParams.pDeviceCertLocation
       THEN \E readCert \in {0, -1}, parseCert \in {0, 1, -1},
               readKey \in {0, -1}, parseKey \in {0, -1} :
              IF readCert < 0
              THEN /\ ConnectReturn(IdentityError("devcert"))
                   /\ cl' = [cl EXCEPT !.stage = "devcert"]
                   /\ ret' = readCert
                   /\ obj' = obj
              ELSE IF parseCert # 0
              THEN /\ ConnectReturn(IdentityError("devcert"))
                   /\ cl' = [cl EXCEPT !.stage = "devcert"]
                   /\ ret' = parseCert
                   /\ obj' = [obj EXCEPT !["clicert"] = IF parseCert > 0 THEN "live" ELSE "init"]
              ELSE IF readKey < 0
              THEN /\ ConnectReturn(IdentityError("pkey"))
                   /\ cl' = [cl EXCEPT !.stage = "pkey"]
                   /\ ret' = readKey
                   /\ obj' = [obj EXCEPT !["clicert"] = "live"]
              ELSE IF parseKey # 0
              THEN /\ ConnectReturn(IdentityError("pkey"))
                   /\ cl' = [cl EXCEPT !.stage = "pkey"]
                   /\ ret' = parseKey
                   /\ obj' = [obj EXCEPT !["clicert"] = "live"]
              ELSE /\ pc' = "c_net"
                   /\ cl' = [cl EXCEPT !.stage = "pkey"]
                   /\ ret' = parseKey
                   /\ obj' = [obj EXCEPT !["clicert"] = "live", !["pkey"] = "live"]
                   /\ UNCHANGED <<session, lastOp, lastRet>>
       ELSE /\ pc' = "c_net"
            /\ cl' = [cl EXCEPT !.stage = "devcert"]
            /\ UNCHANGED <<obj, ret, session, lastOp, lastRet>>
    /\ UNCHANGED <<netVars, conf, ssl, ioVars>>

\* lines 278-286 without the two specific cases of the switch
NetConnectError_AllConnectFailed(r) == "NETWORK_ERR_NET_CONNECT_FAILED"

\* lines 278-286: the code returned for a failed mbedtls_net_connect
NetConnectError(r) ==
    IF r = MBEDTLS_ERR_NET_SOCKET_FAILED THEN "NETWORK_ERR_NET_SOCKET_FAILED"
    ELSE IF r = MBEDTLS_ERR_NET_UNKNOWN_HOST THEN "NETWORK_ERR_NET_UNKNOWN_HOST"
    ELSE "NETWORK_ERR_NET_CONNECT_FAILED"

\* lines 272-294 with the result of mbedtls_net_set_block not looked at
ConnectTransport_IgnoresSetBlock ==
    /\ pc = "c_net"
    /\ cl' = [cl EXCEPT !.stage = "net"]
    /\ \E r \in NetConnectResults, setBlock \in {0, -1} :
         IF r # 0
         THEN /\ ConnectReturn(NetConnectError(r))
              /\ obj' = obj
              /\ ret' = r
         ELSE /\ pc' = "c_conf"
              /\ obj' = [obj EXCEPT !["server_fd"] = "live"]
              /\ ret' = setBlock
              /\ UNCHANGED <<session, lastOp, lastRet>>
    /\ UNCHANGED <<netVars, conf, ssl, ioVars>>

\* lines 272-294: open the transport and make it blocking
ConnectTransport ==
    /\ pc = "c_net"
    /\ cl' = [cl EXCEPT !.stage = "net"]
    /\ \E r \in NetConnectResults, setBlock \in {0, -1} :
         IF r # 0
         THEN /\ ConnectReturn(NetConnectError(r))
              /\ obj' = obj
              /\ ret' = r
         ELSE IF setBlock # 0
         THEN /\ ConnectReturn("SSL_CONNECTION_ERROR")
              /\ obj' = [obj EXCEPT !["server_fd"] = "live"]
              /\ ret' = setBlock
         ELSE /\ pc' = "c_conf"
              /\ obj' = [obj EXCEPT !["server_fd"] = "live"]
              /\ ret' = setBlock
              /\ UNCHANGED <<session, lastOp, lastRet>>
    /\ UNCHANGED <<netVars, conf, ssl, ioVars>>

\* lines 305-309 without the else branch
AuthMode_AlwaysRequired(flag) == "required"

\* lines 305-309: the authentication mode installed for a verification flag
AuthMode(flag) == IF flag = TRUE THEN "required" ELSE "optional"

\* lines 297-321: the configuration once every call up to
\* mbedtls_ssl_conf_own_cert has been made; ownCert tells whether that one
\* was made and succeeded
ConfInstalled(p, ownCert) ==
    [defaults |-> TRUE, verify_cb |-> TRUE, authmode |-> AuthMode(p.ServerVerificationFlag),
     rng |-> TRUE, ca_chain |-> p.pRootCALocation, own_cert |-> ownCert, read_timeout |-> 0]

\* lines 296-323: fill the TLS configuration
ConnectConfigure ==
    /\ pc = "c_conf"
    /\ cl' = [cl EXCEPT !.stage = "conf"]
    /\ \E defaults \in {0, -1}, ownCert \in {0, -1} :
         IF defaults # 0
         THEN /\ ConnectReturn("SSL_CONNECTION_ERROR")
              /\ ret' = defaults
              /\ UNCHANGED <<conf, obj>>
         ELSE IF tlsConnectParams.pDeviceCertLocation /\ ownCert # 0
         THEN /\ ConnectReturn("SSL_CONNECTION_ERROR")
              /\ ret' = ownCert
              /\ conf' = ConfInstalled(tlsConnectParams, FALSE)
              /\ obj' = [obj EXCEPT !["conf"] = "live"]
         ELSE /\ conf' = [ConfInstalled(tlsConnectParams, tlsConnectParams.pDeviceCertLocation)
                            EXCEPT !.read_timeout = tlsConnectParams.timeout_ms]
              /\ obj' = [obj EXCEPT !["conf"] = "live"]
              /\ ret' = defaults
              /\ pc' = "c_ssl"
              /\ UNCHANGED <<session, lastOp, lastRet>>
    /\ UNCHANGED <<netVars, ssl, ioVars>>

\* lines 336-346: give the configuration to the SSL context, set the host
\* name, bind the transport with the send and receive-with-timeout functions
ConnectSslSetup ==
    /\ pc = "c_ssl"
    /\ cl' = [cl EXCEPT !.stage = "ssl"]
    /\ \E setup \in {0, -1}, hostname \in {0, -1} :
         IF setup # 0
         THEN /\ ConnectReturn("SSL_CONNECTION_ERROR")
              /\ ret' = setup
              /\ UNCHANGED <<ssl, obj>>
         ELSE IF hostname # 0
         THEN /\ ConnectReturn("SSL_CONNECTION_ERROR")
              /\ ret' = hostname
              /\ ssl' = [ssl EXCEPT !.setup = TRUE]
              /\ obj' = [obj EXCEPT !["ssl"] = "live"]
         ELSE /\ ssl' = [setup |-> TRUE, hostname |-> TRUE, bio |-> "recv_timeout"]
              /\ obj' = [obj EXCEPT !["ssl"] = "live"]
              /\ ret' = hostname
              /\ pc' = "c_hs"
              /\ UNCHANGED <<session, lastOp, lastRet>>
    /\ UNCHANGED <<netVars, conf, ioVars>>

\* line 352 calling the step again after an engine timeout too
HandshakeRetry_AlsoTimeout(r) ==
    \/ r = MBEDTLS_ERR_SSL_WANT_READ
    \/ r = MBEDTLS_ERR_SSL_WANT_WRITE
    \/ r = MBEDTLS_ERR_SSL_TIMEOUT

\* line 352: a handshake result after which the step is called again
HandshakeRetry(r) == r = MBEDTLS_ERR_SSL_WANT_READ \/ r = MBEDTLS_ERR_SSL_WANT_WRITE

\* lines 351-364: the code returned when mbedtls_ssl_handshake ends with r # 0
\* and r is not retried
HandshakeError(r) == "SSL_CONNECTION_ERROR"

\* lines 351-364: one call of mbedtls_ssl_handshake
ConnectHandshake ==
    /\ pc = "c_hs"
    /\ \E r \in HandshakeResults :
         /\ cl' = [cl EXCEPT !.stage = "hs", !.hsRet = r, !.hsCalls = TRUE]
         /\ IF r = 0
            THEN /\ pc' = "c_verify"
                 /\ UNCHANGED <<session, lastOp, lastRet>>
            ELSE IF HandshakeRetry(r)
            THEN /\ pc' = "c_hs"
                 /\ UNCHANGED <<session, lastOp, lastRet>>
            ELSE ConnectReturn(HandshakeError(r))
    /\ UNCHANGED <<netVars, engVars, ret, ioVars>>

\* line 376 testing the root-CA location rather than the stored flag
VerifyChecked_RootCAOnly(p) == p.pRootCALocation

\* lines 376-389: whether mbedtls_ssl_get_verify_result is called
VerifyChecked(p) == p.ServerVerificationFlag = TRUE

\* lines 377-385 with the bitmask read back and not looked at
VerifyOutcome_IgnoresBitmask(bitmask) == "SUCCESS"

\* lines 377-385: the result of connect for a verification bitmask
VerifyOutcome(bitmask) == IF bitmask # 0 THEN "SSL_CONNECTION_ERROR" ELSE "SUCCESS"

\* lines 376-401 with line 399 run only when the result is SUCCESS
ConnectVerify_SwapOnSuccessOnly ==
    /\ pc = "c_verify"
    /\ IF VerifyChecked(tlsConnectParams)
       THEN \E bitmask \in VerifyResults :
              /\ flags' = bitmask
              /\ cl' = [cl EXCEPT !.stage = "verify", !.verifyRead = TRUE]
              /\ ConnectReturn(VerifyOutcome(bitmask))
              /\ conf' = IF VerifyOutcome(bitmask) = "SUCCESS"
                         THEN [conf EXCEPT !.read_timeout = IOT_SSL_READ_TIMEOUT]
                         ELSE conf
       ELSE /\ flags' = flags
            /\ cl' = [cl EXCEPT !.stage = "verify"]
            /\ ConnectReturn("SUCCESS")
            /\ conf' = [conf EXCEPT !.read_timeout = IOT_SSL_READ_TIMEOUT]
    /\ UNCHANGED <<tlsConnectParams, obj, ssl, ret, ioVars>>

\* lines 376-401: read the verification result back when verification is on,
\* set the steady-state read timeout, return
ConnectVerify ==
    /\ pc = "c_verify"
    /\ IF VerifyChecked(tlsConnectParams)
       THEN \E bitmask \in VerifyResults :
              /\ flags' = bitmask
              /\ cl' = [cl EXCEPT !.stage = "verify", !.verifyRead = TRUE]
              /\ ConnectReturn(VerifyOutcome(bitmask))
       ELSE /\ flags' = flags
            /\ cl' = [cl EXCEPT !.stage = "verify"]
            /\ ConnectReturn("SUCCESS")
    /\ conf' = [conf EXCEPT !.read_timeout = IOT_SSL_READ_TIMEOUT]
    /\ UNCHANGED <<tlsConnectParams, obj, ssl, ret, ioVars>>

iot_tls_connect ==
    \/ ConnectNull
    \/ ConnectEnter
    \/ ConnectSeed
    \/ ConnectLoadRootCA
    \/ ConnectLoadDevice
    \/ ConnectTransport
    \/ ConnectConfigure
    \/ ConnectSslSetup
    \/ ConnectHandshake
    \/ ConnectVerify

(* ------------------------------------------------------------------ *)
(* The deadline timer                                                  *)
(* ------------------------------------------------------------------ *)
TimedPcs == {"w_for", "w_while", "w_incr", "w_done", "r_while", "r_timer", "r_done"}

\* the deadline of the running write or read passes; a timer that has
\* expired stays expired
TimerExpires ==
    /\ pc \in TimedPcs
    /\ ~timerExpired
    /\ timerExpired' = TRUE
    /\ UNCHANGED <<pc, session, netVars, engVars, ret, cl, wr, rd, lastOp, lastRet>>

(* ------------------------------------------------------------------ *)
(* iot_tls_write                                                       *)
(* ------------------------------------------------------------------ *)
\* line 415: a result of the engine that is tried again
WouldBlock(r) == r = MBEDTLS_ERR_SSL_WANT_READ \/ r = MBEDTLS_ERR_SSL_WANT_WRITE

\* size_t is 32 bits wide on the Cortex-M4 target.  A size_t is held here as
\* the two's-complement integer with the same 32 bits, so a negative v stands
\* for 2^32 + v; sums and differences of the small values met here are then
\* the plain ones, and the order of size_t is SizeLess
SizeLess(a, b) == IF (a < 0) = (b < 0) THEN a < b ELSE b < 0

\* line 413 without the comparison of written_so_far with len
WriteContinue_TimerOnly(written_so_far, len, expired) == ~expired

\* line 413: the condition of the for loop
WriteContinue(written_so_far, len, expired) == SizeLess(written_so_far, len) /\ ~expired

\* line 413 counting one byte for every fragment
WriteAdvance_ByOne(written_so_far, r) == written_so_far + 1

\* line 413: written_so_far += ret, in size_t: the int ret is converted to
\* size_t, which keeps its 32 bits
WriteAdvance(written_so_far, r) == written_so_far + r

\* lines 430-436 without the test of the timer
WriteOutcome_NoTimeout(isErrorFlag, expired, written_so_far, len) ==
    IF isErrorFlag THEN "NETWORK_SSL_WRITE_ERROR" ELSE "SUCCESS"

\* lines 430-436 with the timer tested before the error flag
WriteOutcome_TimeoutFirst(isErrorFlag, expired, written_so_far, len) ==
    IF expired /\ written_so_far # len THEN "NETWORK_SSL_WRITE_TIMEOUT_ERROR"
    ELSE IF isErrorFlag THEN "NETWORK_SSL_WRITE_ERROR"
    ELSE "SUCCESS"

\* lines 430-436: the code iot_tls_write returns
WriteOutcome(isErrorFlag, expired, written_so_far, len) ==
    IF isErrorFlag THEN "NETWORK_SSL_WRITE_ERROR"
    ELSE IF expired /\ written_so_far # len THEN "NETWORK_SSL_WRITE_TIMEOUT_ERROR"
    ELSE "SUCCESS"

\* lines 404-412: a caller writes len bytes on an established session, with a
\* timer that may have expired already
WriteEnter ==
    /\ Call("iot_tls_write")
    /\ session = "Established"
    /\ \E len \in 0..MaxLen, expired \in BOOLEAN :
         /\ wr' = [WriteBlank EXCEPT !.len = len, !.expiredOnEntry = expired]
         /\ timerExpired' = expired
    /\ rd' = ReadBlank
    /\ ret' = 0
    /\ pc' = "w_for"
    /\ UNCHANGED <<session, netVars, engVars, cl>>

\* line 413: the test of the for loop
WriteForTest ==
    /\ pc = "w_for"
    /\ pc' = IF WriteContinue(wr.written_so_far, wr.len, timerExpired) THEN "w_while" ELSE "w_done"
    /\ UNCHANGED <<session, netVars, engVars, ret, cl, ioVars, lastOp, lastRet>>

\* lines 414-425: the test of the while loop, which calls mbedtls_ssl_write
\* when the timer has not expired, and the body of the while loop
WriteWhile ==
    /\ pc = "w_while"
    /\ IF timerExpired
       THEN /\ pc' = "w_incr"
            /\ UNCHANGED <<wr, ret>>
       ELSE LET off == wr.written_so_far
                n == wr.len - wr.written_so_far
            IN  \E r \in WriteResults(n) :
                  /\ ret' = r
                  /\ IF r > 0
                     THEN /\ wr' = [wr EXCEPT !.off = off, !.n = n, !.calls = TRUE,
                                      !.sent = @ \o SubSeq(Payload(wr.len), off + 1, off + r)]
                          /\ pc' = "w_incr"
                     ELSE IF WouldBlock(r)
                     THEN /\ wr' = [wr EXCEPT !.off = off, !.n = n, !.calls = TRUE]
                          /\ pc' = "w_while"
                     ELSE /\ wr' = [wr EXCEPT !.off = off, !.n = n, !.calls = TRUE,
                                      !.isErrorFlag = TRUE]
                          /\ pc' = "w_done"
    /\ UNCHANGED <<session, netVars, engVars, cl, rd, timerExpired, lastOp, lastRet>>

\* line 413: the increment of the for loop
WriteIncr ==
    /\ pc = "w_incr"
    /\ wr' = [wr EXCEPT !.written_so_far = WriteAdvance(wr.written_so_far, ret),
                        !.frags = @ + 1]
    /\ pc' = "w_for"
    /\ UNCHANGED <<session, netVars, engVars, ret, cl, rd, timerExpired, lastOp, lastRet>>

\* lines 428-436 closing the transport handle when the write has failed
WriteDone_ClosesOnError ==
    /\ pc = "w_done"
    /\ wr' = [wr EXCEPT !.written_len = wr.written_so_far]
    /\ Return("iot_tls_write",
              WriteOutcome(wr.isErrorFlag, timerExpired, wr.written_so_far, wr.len))
    /\ obj' = IF wr.isErrorFlag THEN [obj EXCEPT !["server_fd"] = "freed"] ELSE obj
    /\ UNCHANGED <<session, netVars, conf, ssl, ret, cl, rd, timerExpired>>

\* lines 428-436: store the count, return
WriteDone ==
    /\ pc = "w_done"
    /\ wr' = [wr EXCEPT !.written_len = wr.written_so_far]
    /\ Return("iot_tls_write",
              WriteOutcome(wr.isErrorFlag, timerExpired, wr.written_so_far, wr.len))
    /\ UNCHANGED <<session, netVars, engVars, ret, cl, rd, timerExpired>>

iot_tls_write ==
    \/ WriteEnter
    \/ WriteForTest
    \/ WriteWhile
    \/ WriteIncr
    \/ WriteDone

(* ------------------------------------------------------------------ *)
(* iot_tls_read                                                        *)
(* ------------------------------------------------------------------ *)
\* line 452 without ret == 0: a zero return is tried again
ReadFatal_ZeroRetried(r) ==
    r # 0 /\ r # MBEDTLS_ERR_SSL_WANT_READ /\ r # MBEDTLS_ERR_SSL_WANT_WRITE
          /\ r # MBEDTLS_ERR_SSL_TIMEOUT

\* line 452 ending the call on a result of 0 only
ReadFatal_OnlyZero(r) == r = 0

\* line 452: a result of mbedtls_ssl_read, not positive, that ends the call
ReadFatal(r) ==
    r = 0 \/ (r # MBEDTLS_ERR_SSL_WANT_READ /\ r # MBEDTLS_ERR_SSL_WANT_WRITE
              /\ r # MBEDTLS_ERR_SSL_TIMEOUT)

\* lines 462-471 without the test of rxLen: an idle channel is a timeout
ReadOutcome_NoIdle(len, rxLen) ==
    IF len = 0 THEN "SUCCESS" ELSE "NETWORK_SSL_READ_TIMEOUT_ERROR"

\* lines 462-471: the code iot_tls_read returns once its loop has ended
ReadOutcome(len, rxLen) ==
    IF len = 0 THEN "SUCCESS"
    ELSE IF rxLen = 0 THEN "NETWORK_SSL_NOTHING_TO_READ"
    ELSE "NETWORK_SSL_READ_TIMEOUT_ERROR"

\* lines 462-465: what *read_len holds when the call returns
ReadLenStored(len, rxLen, before) == IF len = 0 THEN rxLen ELSE before

\* what the caller may have left in *read_len: nothing, or the count of an
\* earlier read that filled its buffer
StaleCounts == {0, MaxLen}

\* lines 439-445 with the timer of line 457 tested before the first read
ReadEnter_TimerFirst ==
    /\ Call("iot_tls_read")
    /\ session = "Established"
    /\ \E L \in 0..MaxLen, expired \in BOOLEAN, before \in StaleCounts :
         /\ rd' = [ReadBlank EXCEPT !.L = L, !.len = L, !.read_len = before,
                                    !.read_len0 = before, !.buf = [i \in 1..L |-> 0],
                                    !.expiredOnEntry = expired]
         /\ timerExpired' = expired
    /\ wr' = WriteBlank
    /\ ret' = 0
    /\ pc' = "r_timer"
    /\ UNCHANGED <<session, netVars, engVars, cl>>

\* lines 439-443: a caller reads into a buffer of L bytes on an established
\* session; *read_len holds whatever the caller left in it
ReadEnter ==
    /\ Call("iot_tls_read")
    /\ session = "Established"
    /\ \E L \in 0..MaxLen, expired \in BOOLEAN, before \in StaleCounts :
         /\ rd' = [ReadBlank EXCEPT !.L = L, !.len = L, !.read_len = before,
                                    !.read_len0 = before, !.buf = [i \in 1..L |-> 0],
                                    !.expiredOnEntry = expired]
         /\ timerExpired' = expired
    /\ wr' = WriteBlank
    /\ ret' = 0
    /\ pc' = "r_while"
    /\ UNCHANGED <<session, netVars, engVars, cl>>

\* lines 445-454: the test of the loop and one call of mbedtls_ssl_read; the
\* engine puts the next r bytes of its stream at pMsg
ReadWhile ==
    /\ pc = "r_while"
    /\ IF SizeLess(0, rd.len)
       THEN \E r \in ReadResults(rd.len) :
              /\ ret' = r
              /\ IF r > 0
                 THEN /\ rd' = [rd EXCEPT !.rxLen = @ + r, !.pMsg = @ + r,
                                  !.len = @ - r, !.calls = TRUE, !.n = rd.len,
                                  !.delivered = @ + r,
                                  !.buf = [i \in 1..rd.L |->
                                             IF i > rd.pMsg /\ i <= rd.pMsg + r
                                             THEN rd.delivered + (i - rd.pMsg)
                                             ELSE rd.buf[i]]]
                      /\ pc' = "r_timer"
                      /\ UNCHANGED <<lastOp, lastRet>>
                 ELSE IF ReadFatal(r)
                 THEN /\ rd' = [rd EXCEPT !.calls = TRUE, !.n = rd.len,
                                  !.zeroSeen = (r = 0), !.fatalSeen = (r # 0)]
                      /\ Return("iot_tls_read", "NETWORK_SSL_READ_ERROR")
                 ELSE /\ rd' = [rd EXCEPT !.calls = TRUE, !.n = rd.len]
                      /\ pc' = "r_timer"
                      /\ UNCHANGED <<lastOp, lastRet>>
       ELSE /\ pc' = "r_done"
            /\ UNCHANGED <<rd, ret, lastOp, lastRet>>
    /\ UNCHANGED <<session, netVars, engVars, cl, wr, timerExpired>>

\* lines 456-459 left out: the loop goes on whatever the timer says
ReadTimerTest_Ignored ==
    /\ pc = "r_timer"
    /\ pc' = "r_while"
    /\ UNCHANGED <<session, netVars, engVars, ret, cl, ioVars, lastOp, lastRet>>

\* lines 456-459: the timer is looked at after the read
ReadTimerTest ==
    /\ pc = "r_timer"
    /\ pc' = IF timerExpired THEN "r_done" ELSE "r_while"
    /\ UNCHANGED <<session, netVars, engVars, ret, cl, ioVars, lastOp, lastRet>>

\* lines 462-471: the result after the loop
ReadDone ==
    /\ pc = "r_done"
    /\ rd' = [rd EXCEPT !.read_len = ReadLenStored(rd.len, rd.rxLen, rd.read_len)]
    /\ Return("iot_tls_read", ReadOutcome(rd.len, rd.rxLen))
    /\ UNCHANGED <<session, netVars, engVars, ret, cl, wr, timerExpired>>

iot_tls_read ==
    \/ ReadEnter
    \/ ReadWhile
    \/ ReadTimerTest
    \/ ReadDone

(* ------------------------------------------------------------------ *)
(* iot_tls_is_connected, iot_tls_disconnect, iot_tls_destroy           *)
(* ------------------------------------------------------------------ *)
\* lines 167-171
iot_tls_is_connected ==
    /\ pc = "idle"
    /\ Return("iot_tls_is_connected", "NETWORK_PHYSICAL_LAYER_CONNECTED")
    /\ UNCHANGED <<session, netVars, engVars, ret, cl, ioVars>>

\* lines 474-477: a caller closes an established session
DisconnectEnter ==
    /\ Call("iot_tls_disconnect")
    /\ session = "Established"
    /\ wr' = WriteBlank
    /\ rd' = ReadBlank
    /\ timerExpired' = FALSE
    /\ ret' = 0
    /\ pc' = "d_notify"
    /\ UNCHANGED <<session, netVars, engVars, cl>>

\* line 480 repeating the call after either would-block result
CloseNotifyRetry_AnyWouldBlock(r) ==
    r = MBEDTLS_ERR_SSL_WANT_WRITE \/ r = MBEDTLS_ERR_SSL_WANT_READ

\* line 480: the close notification is sent again after this result only
CloseNotifyRetry(r) == r = MBEDTLS_ERR_SSL_WANT_WRITE

\* line 479: one call of mbedtls_ssl_close_notify
DisconnectNotify ==
    /\ pc = "d_notify"
    /\ \E r \in CloseNotifyResults : ret' = r
    /\ pc' = "d_while"
    /\ UNCHANGED <<session, netVars, engVars, cl, ioVars, lastOp, lastRet>>

\* lines 480-485: the test of the do-while loop, and the return
DisconnectWhile ==
    /\ pc = "d_while"
    /\ IF CloseNotifyRetry(ret)
       THEN /\ pc' = "d_notify"
            /\ UNCHANGED <<session, lastOp, lastRet>>
       ELSE /\ Return("iot_tls_disconnect", "SUCCESS")
            /\ session' = "Disconnected"
    /\ UNCHANGED <<netVars, engVars, ret, cl, ioVars>>

iot_tls_disconnect ==
    \/ DisconnectEnter
    \/ DisconnectNotify
    \/ DisconnectWhile

\* lines 492-500 with mbedtls_entropy_free left out
DestroyFreed_NoEntropy ==
    {"server_fd", "clicert", "cacert", "pkey", "ssl", "conf", "ctr_drbg"}

\* lines 492-500: the engine objects iot_tls_destroy frees
DestroyFreed ==
    {"server_fd", "clicert", "cacert", "pkey", "ssl", "conf", "ctr_drbg", "entropy"}

\* lines 488-503: every engine object is freed, whatever state it is in
iot_tls_destroy ==
    /\ pc = "idle"
    /\ obj' = [o \in Objects |-> IF o \in DestroyFreed THEN "freed" ELSE obj[o]]
    /\ conf' = ConfBlank
    /\ ssl' = SslBlank
    /\ session' = "Closed"
    /\ wr' = WriteBlank
    /\ rd' = ReadBlank
    /\ timerExpired' = FALSE
    /\ ret' = 0
    /\ Return("iot_tls_destroy", "SUCCESS")
    /\ UNCHANGED <<netVars, cl>>

Next ==
    \/ iot_tls_connect
    \/ iot_tls_write
    \/ iot_tls_read
    \/ iot_tls_is_connected
    \/ iot_tls_disconnect
    \/ iot_tls_destroy
    \/ TimerExpires

Spec == Init /\ [][Next]_vars

\* a step of a call that has been entered and has not returned
RunningStep == pc # "idle" /\ Next

\* the thread that entered a call keeps executing it: a step of the running
\* call that stays possible is eventually taken.  Nothing obliges the caller
\* to make another call
FairSpec == Spec /\ WF_vars(RunningStep)

(* ------------------------------------------------------------------ *)
(* Properties of iot_tls_connect                                       *)
(* ------------------------------------------------------------------ *)
\* iot_tls_connect has returned from a call that had a Network object
ConnectReturned ==
    pc = "idle" /\ lastOp = "iot_tls_connect" /\ lastRet # "NULL_VALUE_ERROR"

\* the results of the handshake step that end the handshake loop with a
\* failure other than a certificate-verification failure
ProtocolFailures ==
    {r \in HandshakeResults :
        r # 0 /\ ~HandshakeRetry(r) /\ r # MBEDTLS_ERR_X509_CERT_VERIFY_FAILED}

\* C1: when iot_tls_connect returns SUCCESS with peer verification enabled
\* (root-CA location present, ServerVerificationFlag true), the handshake
\* step has returned 0 and the verification bitmask read back and stored in
\* tlsDataParams.flags is 0; a bitmask read back as non-zero never comes
\* with SUCCESS.
C1_VerifiedSuccess ==
    /\ (ConnectReturned /\ lastRet = "SUCCESS" /\ tlsConnectParams.pRootCALocation
          /\ tlsConnectParams.ServerVerificationFlag)
       => (cl.hsCalls /\ cl.hsRet = 0 /\ cl.verifyRead /\ flags = 0)
    /\ (ConnectReturned /\ cl.verifyRead /\ flags # 0) => lastRet # "SUCCESS"

C1_Witness ==
    /\ ConnectReturned
    /\ tlsConnectParams.pRootCALocation
    /\ tlsConnectParams.ServerVerificationFlag
    /\ lastRet = "SUCCESS"
    /\ cl.hsCalls
    /\ cl.verifyRead
    /\ flags = 0

\* C2, as claimed: whenever a root-CA location was supplied, a connect that
\* gets to the verification stage reads the verification result back, and
\* the authentication mode it installed is "required".
C2_SkippedOnlyWithoutRootCA ==
    (ConnectReturned /\ cl.stage = "verify" /\ tlsConnectParams.pRootCALocation)
    => (cl.verifyRead /\ conf.authmode = "required")

\* C2, amended: the verification-result check is skipped, and the
\* authentication mode is "optional", exactly when no root-CA location was
\* supplied or the caller passed ServerVerificationFlag = false; with a
\* root-CA location and the flag true the check is made and a non-zero
\* bitmask fails the connect.
C2_SkippedWithoutRootCAOrFlag ==
    LET verifying == tlsConnectParams.pRootCALocation /\ cl.flagGiven
    IN  /\ (lastOp = "iot_tls_connect" /\ conf.authmode # "unset")
           => (conf.authmode = "required" <=> verifying)
        /\ (ConnectReturned /\ cl.stage = "verify")
           => /\ cl.verifyRead <=> verifying
              /\ (verifying /\ flags # 0) => lastRet # "SUCCESS"

C2_Witness ==
    /\ ConnectReturned
    /\ cl.stage = "verify"
    /\ tlsConnectParams.pRootCALocation
    /\ ~cl.flagGiven
    /\ ~cl.verifyRead
    /\ conf.authmode = "optional"
    /\ lastRet = "SUCCESS"

\* C3, as claimed: after every iot_tls_connect on parameters without a
\* root-CA location the stored verification flag is cleared, the
\* verification result was not read back and no trust-anchor chain is
\* installed.
C3_ClearedWithoutRootCA ==
    (ConnectReturned /\ ~tlsConnectParams.pRootCALocation)
    => /\ tlsConnectParams.ServerVerificationFlag = FALSE
       /\ ~cl.verifyRead
       /\ ~conf.ca_chain

\* C3, amended: on parameters without a root-CA location, an
\* iot_tls_connect that gets past the seeding of the random generator clears
\* the stored verification flag, and the flag stays cleared until the call
\* has returned; no iot_tls_connect on such parameters reads the
\* verification result back or installs a trust-anchor chain.
C3_ClearedOncePastSeeding ==
    (lastOp = "iot_tls_connect" /\ lastRet # "NULL_VALUE_ERROR"
       /\ ~tlsConnectParams.pRootCALocation)
    => /\ cl.stage \notin {"init", "seed"} => tlsConnectParams.ServerVerificationFlag = FALSE
       /\ ~cl.verifyRead
       /\ ~conf.ca_chain

C3_Witness ==
    /\ ConnectReturned
    /\ ~tlsConnectParams.pRootCALocation
    /\ cl.flagGiven
    /\ lastRet = "SUCCESS"
    /\ tlsConnectParams.ServerVerificationFlag = FALSE

\* C4: the code iot_tls_connect returns for a certificate-verification
\* failure (handshake result CERT_VERIFY_FAILED, or a non-zero verification
\* bitmask after the handshake) differs from the code it returns for every
\* other failure of the handshake.
C4_VerificationFailureDistinct ==
    (ConnectReturned
       /\ \/ (cl.stage = "hs" /\ cl.hsRet = MBEDTLS_ERR_X509_CERT_VERIFY_FAILED)
          \/ (cl.stage = "verify" /\ cl.verifyRead /\ flags # 0))
    => \A r \in ProtocolFailures : lastRet # HandshakeError(r)

(* ------------------------------------------------------------------ *)
(* Properties of iot_tls_write                                         *)
(* ------------------------------------------------------------------ *)
WriteReturned == pc = "idle" /\ lastOp = "iot_tls_write"

\* the bytes mbedtls_ssl_write has accepted during the call: the sum of the
\* positive counts it returned
Accepted == Len(wr.sent)

\* C5: when iot_tls_write returns, *written_len is the sum of the positive
\* counts mbedtls_ssl_write returned during the call, whatever the engine
\* answered and whenever the deadline passed, and SUCCESS is returned only
\* if that sum is len.
C5_WrittenLenIsAcceptedSum ==
    WriteReturned
    => /\ wr.written_len = Accepted
       /\ lastRet = "SUCCESS" => Accepted = wr.len

\* C6: every call of mbedtls_ssl_write is given the suffix of the payload
\* that has not been accepted yet; and when the deadline has not passed
\* during the call and the engine has refused nothing for good,
\* iot_tls_write returns SUCCESS with *written_len = len, the accepted
\* fragments making up the payload in order.
C6_FragmentsMakePayload ==
    /\ (lastOp = "iot_tls_write" /\ wr.calls)
       => /\ wr.off = Accepted - (IF ret > 0 THEN ret ELSE 0)
          /\ wr.n = wr.len - wr.off
          /\ wr.sent = SubSeq(Payload(wr.len), 1, Accepted)
    /\ (WriteReturned /\ ~timerExpired /\ (wr.calls => ret > 0))
       => /\ lastRet = "SUCCESS"
          /\ wr.written_len = wr.len
          /\ wr.sent = Payload(wr.len)

\* a payload accepted in two fragments
C6_Witness ==
    /\ WriteReturned
    /\ ~timerExpired
    /\ wr.len = MaxLen
    /\ wr.frags = 2
    /\ wr.off = 1
    /\ wr.sent = Payload(wr.len)
    /\ lastRet = "SUCCESS"

\* C7: an iot_tls_write of a payload that is not empty, entered with the
\* deadline passed, never calls mbedtls_ssl_write, stores 0 in *written_len
\* and returns the write-timeout error.
C7_ExpiredOnEntry ==
    (lastOp = "iot_tls_write" /\ wr.expiredOnEntry /\ wr.len > 0)
    => /\ ~wr.calls
       /\ pc = "idle" => (wr.written_len = 0 /\ lastRet = "NETWORK_SSL_WRITE_TIMEOUT_ERROR")

C7_Witness ==
    /\ WriteReturned
    /\ wr.expiredOnEntry
    /\ wr.len > 0
    /\ lastRet = "NETWORK_SSL_WRITE_TIMEOUT_ERROR"

(* ------------------------------------------------------------------ *)
(* Properties of iot_tls_read                                          *)
(* ------------------------------------------------------------------ *)
ReadReturned == pc = "idle" /\ lastOp = "iot_tls_read"

\* the bytes mbedtls_ssl_read has put in the buffer during the call
Delivered == rd.delivered

ReadCodes == {"SUCCESS", "NETWORK_SSL_NOTHING_TO_READ", "NETWORK_SSL_READ_TIMEOUT_ERROR"}

\* C8: an iot_tls_read into a buffer of L >= 1 bytes during which the engine
\* answered only positive counts and would-block or timeout results returns
\* SUCCESS iff L bytes were delivered, NOTHING_TO_READ iff the deadline
\* passed with no byte delivered, READ_TIMEOUT iff the deadline passed with
\* k bytes delivered, 0 < k < L; and it returns one of the three.
C8_ThreeWayOutcome ==
    (ReadReturned /\ rd.L >= 1 /\ ~rd.zeroSeen /\ ~rd.fatalSeen)
    => /\ lastRet \in ReadCodes
       /\ lastRet = "SUCCESS" <=> Delivered = rd.L
       /\ lastRet = "NETWORK_SSL_NOTHING_TO_READ" <=> (timerExpired /\ Delivered = 0)
       /\ lastRet = "NETWORK_SSL_READ_TIMEOUT_ERROR"
            <=> (timerExpired /\ 0 < Delivered /\ Delivered < rd.L)

\* a buffer filled by the read after which the deadline had passed
C8_Witness ==
    /\ ReadReturned
    /\ rd.L = MaxLen
    /\ timerExpired
    /\ Delivered = rd.L
    /\ lastRet = "SUCCESS"

C8_WitnessNothing ==
    ReadReturned /\ rd.L >= 1 /\ rd.calls /\ lastRet = "NETWORK_SSL_NOTHING_TO_READ"

C8_WitnessPartial ==
    ReadReturned /\ Delivered = 1 /\ lastRet = "NETWORK_SSL_READ_TIMEOUT_ERROR"

\* a step of iot_tls_read that calls mbedtls_ssl_read
ReadCallStep == pc = "r_while" /\ lastOp' = "iot_tls_read" /\ rd'.calls /\ pc' # "r_while"

\* the cursor of iot_tls_read is left where it was
CursorKept == rd'.pMsg = rd.pMsg /\ rd'.len = rd.len /\ rd'.rxLen = rd.rxLen

\* C9, as claimed: a zero return of mbedtls_ssl_read never makes
\* iot_tls_read return the read-error code.
C9_ZeroNotFatal ==
    (lastOp = "iot_tls_read" /\ rd.zeroSeen) => lastRet # "NETWORK_SSL_READ_ERROR"

\* C9, amended: a zero return of mbedtls_ssl_read is fatal, the call returns
\* the read-error code at once; a would-block or timeout result leaves the
\* cursor where it was and the deadline is looked at next, the loop ending
\* there iff the deadline has passed.
C9_ZeroFatalWouldBlockRetried ==
    [][/\ (ReadCallStep /\ ret' = 0)
          => (pc' = "idle" /\ lastRet' = "NETWORK_SSL_READ_ERROR" /\ CursorKept)
       /\ (ReadCallStep /\ ret' \in {MBEDTLS_ERR_SSL_WANT_READ, MBEDTLS_ERR_SSL_WANT_WRITE,
                                     MBEDTLS_ERR_SSL_TIMEOUT})
          => (pc' = "r_timer" /\ CursorKept)
       /\ (pc = "r_timer" /\ pc' # pc)
          => (pc' = IF timerExpired THEN "r_done" ELSE "r_while")]_vars

C9_Witness ==
    ReadReturned /\ rd.zeroSeen /\ ret = 0 /\ lastRet = "NETWORK_SSL_READ_ERROR"

\* C10: when iot_tls_read returns, whatever the outcome, *read_len is the
\* number of bytes put in the buffer during the call.
C10_ReadLenIsDelivered ==
    ReadReturned => rd.read_len = Delivered

(* ------------------------------------------------------------------ *)
(* Properties of the engine objects' life cycle                        *)
(* ------------------------------------------------------------------ *)
ConnectPcs ==
    {"c_seed", "c_rootca", "c_devcert", "c_net", "c_conf", "c_ssl", "c_hs", "c_verify"}

\* an engine object that has been initialised and not freed since
Initialised(o) == obj[o] \in {"init", "live"}

\* a call of iot_tls_connect that had a Network object has returned on this
\* session and iot_tls_destroy has not been called since
ConnectedOnce == session \in {"Failed", "Established", "Disconnected"}

\* the step of one iot_tls_destroy call
DestroyStep == pc = "idle" /\ pc' = "idle" /\ lastOp' = "iot_tls_destroy"

\* C11: whatever the stage at which iot_tls_connect failed, and after a
\* successful connect too, an iot_tls_destroy call issued afterwards finds
\* every engine object initialised and leaves every one of them freed; every
\* engine call of iot_tls_connect after the initialisation of lines 196-205
\* acts on initialised objects.
C11_DestroyReleasesAll ==
    [][/\ pc \in ConnectPcs => \A o \in Objects : Initialised(o)
       /\ (ConnectedOnce /\ DestroyStep)
          => \A o \in Objects : Initialised(o) /\ obj'[o] = "freed"]_vars

C11_Witness ==
    /\ pc = "idle"
    /\ lastOp = "iot_tls_destroy"
    /\ session = "Closed"
    /\ cl.stage = "hs"
    /\ cl.hsRet = MBEDTLS_ERR_OTHER
    /\ \A o \in Objects : obj[o] = "freed"

\* C12: iot_tls_destroy is safe in every session state: every engine object
\* it frees has been initialised and not freed since (no free of a released
\* or never-initialised object), and a call that directly follows another
\* iot_tls_destroy leaves the resource state as the first call left it.
C12_DestroySafeEverywhere ==
    [][DestroyStep
        => /\ \A o \in DestroyFreed : Initialised(o)
           /\ lastOp = "iot_tls_destroy" => obj' = obj]_vars

\* the step with which a call of iot_tls_connect that has a Network object
\* stores its parameters and initialises the engine objects
ConnectEnterStep == pc = "idle" /\ pc' = "c_seed"

\* C13: an iot_tls_connect call on a session whose previous connect failed,
\* with no iot_tls_destroy in between, does not initialise again an engine
\* object that still holds resources of the failed attempt.
C13_ReconnectKeepsResources ==
    [][(session = "Failed" /\ ConnectEnterStep)
        => \A o \in Objects : obj[o] = "live" => obj'[o] = "live"]_vars

(* ------------------------------------------------------------------ *)
(* Properties of iot_tls_is_connected and iot_tls_disconnect           *)
(* ------------------------------------------------------------------ *)
IsConnectedReturned == pc = "idle" /\ lastOp = "iot_tls_is_connected"

\* C14: iot_tls_is_connected reports connected exactly for an established
\* session: in every state after iot_tls_connect returned SUCCESS and before
\* teardown, and in no state before connect, after a failed connect, after
\* iot_tls_disconnect or after iot_tls_destroy.
C14_ConnectedIffEstablished ==
    IsConnectedReturned
    => (lastRet = "NETWORK_PHYSICAL_LAYER_CONNECTED" <=> session = "Established")

\* the test that follows a call of mbedtls_ssl_close_notify made by
\* iot_tls_disconnect; ret is the result of the call
CloseNotifyStep == pc = "d_while" /\ pc' \in {"d_notify", "idle"}

\* C15: iot_tls_disconnect sends the close notification again only after
\* would-block-on-write, stops on the first other result (would-block-on-read
\* and hard errors included) and then returns SUCCESS whatever that result.
C15_DisconnectNeverFails ==
    [][CloseNotifyStep
        => IF ret = MBEDTLS_ERR_SSL_WANT_WRITE
           THEN pc' = "d_notify"
           ELSE /\ pc' = "idle"
                /\ lastOp' = "iot_tls_disconnect"
                /\ lastRet' = "SUCCESS"]_vars

C15_Witness ==
    /\ pc = "idle"
    /\ lastOp = "iot_tls_disconnect"
    /\ lastRet = "SUCCESS"
    /\ ret = MBEDTLS_ERR_SSL_WANT_READ

(* ------------------------------------------------------------------ *)
(* Properties of the error codes of iot_tls_connect                    *)
(* ------------------------------------------------------------------ *)
\* iot_tls_connect has returned because mbedtls_net_connect failed; ret is
\* what mbedtls_net_connect answered
TransportOpenFailed ==
    ConnectReturned /\ cl.stage = "net" /\ ret \in NetConnectResults \ {0}

TransportCodes ==
    {"NETWORK_ERR_NET_SOCKET_FAILED", "NETWORK_ERR_NET_UNKNOWN_HOST",
     "NETWORK_ERR_NET_CONNECT_FAILED"}

\* C16: when opening the transport fails, iot_tls_connect returns the
\* socket-failed code for a socket-creation failure, the unknown-host code
\* for a host-resolution failure and the connect-failed code for a connect
\* failure or any other transport error; no other stage of iot_tls_connect
\* returns one of these three codes.
C16_TransportFailureClassified ==
    /\ TransportOpenFailed
       => /\ ret = MBEDTLS_ERR_NET_SOCKET_FAILED
             => lastRet = "NETWORK_ERR_NET_SOCKET_FAILED"
          /\ ret = MBEDTLS_ERR_NET_UNKNOWN_HOST
             => lastRet = "NETWORK_ERR_NET_UNKNOWN_HOST"
          /\ ret \notin {MBEDTLS_ERR_NET_SOCKET_FAILED, MBEDTLS_ERR_NET_UNKNOWN_HOST}
             => lastRet = "NETWORK_ERR_NET_CONNECT_FAILED"
    /\ (ConnectReturned /\ lastRet \in TransportCodes) => TransportOpenFailed

C16_Witness ==
    /\ TransportOpenFailed
    /\ ret = MBEDTLS_ERR_NET_UNKNOWN_HOST
    /\ lastRet = "NETWORK_ERR_NET_UNKNOWN_HOST"

C16_WitnessOther ==
    /\ TransportOpenFailed
    /\ ret = MBEDTLS_ERR_OTHER
    /\ lastRet = "NETWORK_ERR_NET_CONNECT_FAILED"

\* a call of iot_tls_connect that had a Network object is running or was the
\* last call to return
InConnect == lastOp = "iot_tls_connect" /\ lastRet # "NULL_VALUE_ERROR"

\* the identity artifact a was supplied and was the last one looked up, and
\* the store did not find it or its blob did not parse: ret is the answer of
\* rofs_readfile or of the parser
ArtifactFailed(a) ==
    /\ InConnect
    /\ cl.stage = a
    /\ IF a = "rootca"
       THEN tlsConnectParams.pRootCALocation /\ ret < 0
       ELSE tlsConnectParams.pDeviceCertLocation /\ ret # 0

\* the code that names an identity artifact
ArtifactCode(a) ==
    CASE a = "rootca" -> "NETWORK_X509_ROOT_CRT_PARSE_ERROR"
      [] a = "devcert" -> "NETWORK_X509_DEVICE_CRT_PARSE_ERROR"
      [] a = "pkey" -> "NETWORK_PK_PRIVATE_KEY_PARSE_ERROR"

C17_WitnessRootCA ==
    /\ ArtifactFailed("rootca")
    /\ ConnectReturned
    /\ lastRet = "NETWORK_X509_ROOT_CRT_PARSE_ERROR"

(* ------------------------------------------------------------------ *)
(* Termination of iot_tls_connect                                      *)
(* ------------------------------------------------------------------ *)
\* C18: a call of iot_tls_connect that has reached the handshake loop
\* eventually returns, whatever mbedtls_ssl_handshake answers, would-block on
\* every call included.
C18_HandshakeLoopReturns == (pc = "c_hs") ~> (pc = "idle")

(* ------------------------------------------------------------------ *)
(* Frame of iot_tls_write and iot_tls_read                             *)
(* ------------------------------------------------------------------ *)
\* a step of a call of iot_tls_write or iot_tls_read, its entry included
IoCallStep == lastOp' \in {"iot_tls_write", "iot_tls_read"}

IoFailed ==
    /\ WriteReturned \/ ReadReturned
    /\ lastRet \in {"NETWORK_SSL_WRITE_ERROR", "NETWORK_SSL_WRITE_TIMEOUT_ERROR",
                    "NETWORK_SSL_READ_ERROR", "NETWORK_SSL_READ_TIMEOUT_ERROR"}

\* C19: no step of iot_tls_write or iot_tls_read frees, initialises or
\* configures an engine object, closes the transport handle or changes the
\* stored connection parameters; after a fatal or timeout outcome the session
\* is still established on the same initialised objects.
C19_IoKeepsSession ==
    [][/\ IoCallStep
          => UNCHANGED <<obj, conf, ssl, tlsConnectParams, flags, session>>
       /\ IoFailed
          => (session = "Established" /\ \A o \in Objects : Initialised(o))]_vars

C19_Witness ==
    /\ WriteReturned
    /\ lastRet = "NETWORK_SSL_WRITE_ERROR"
    /\ session = "Established"
    /\ obj["server_fd"] = "live"
    /\ obj["ssl"] = "live"

C19_WitnessReadTimeout ==
    /\ ReadReturned
    /\ lastRet = "NETWORK_SSL_READ_TIMEOUT_ERROR"
    /\ session = "Established"
    /\ obj["ssl"] = "live"

(* ------------------------------------------------------------------ *)
(* Order of the stages of iot_tls_connect                              *)
(* ------------------------------------------------------------------ *)
\* the place of a stage in the documented order; the device certificate and
\* its key are one stage
StageRank(stage) ==
    CASE stage = "none" -> 0
      [] stage = "init" -> 1
      [] stage = "seed" -> 2
      [] stage = "rootca" -> 3
      [] stage \in {"devcert", "pkey"} -> 4
      [] stage = "net" -> 5
      [] stage = "conf" -> 6
      [] stage = "ssl" -> 7
      [] stage = "hs" -> 8
      [] stage = "verify" -> 9

\* seeding has succeeded and every identity artifact supplied is loaded
SeededAndLoaded ==
    /\ obj["entropy"] = "live"
    /\ obj["ctr_drbg"] = "live"
    /\ tlsConnectParams.pRootCALocation => obj["cacert"] = "live"
    /\ tlsConnectParams.pDeviceCertLocation
       => (obj["clicert"] = "live" /\ obj["pkey"] = "live")

\* the transport is connected, the configuration is installed and the send
\* and receive-with-timeout functions are bound
ReadyForHandshake ==
    /\ obj["server_fd"] = "live"
    /\ conf.defaults /\ conf.verify_cb /\ conf.rng /\ conf.authmode # "unset"
    /\ conf.ca_chain = tlsConnectParams.pRootCALocation
    /\ conf.own_cert = tlsConnectParams.pDeviceCertLocation
    /\ ssl.setup /\ ssl.hostname /\ ssl.bio = "recv_timeout"

\* C20: within one call of iot_tls_connect the stages follow one another in
\* the order initialisation, seeding, root CA, device certificate and key,
\* transport, configuration, SSL setup and binding, handshake loop,
\* verification, none skipped and none repeated but the handshake step; the
\* transport is opened only once seeding and every supplied identity
\* artifact have succeeded, and the handshake step is called only with the
\* transport connected, the configuration installed and the send and
\* receive-with-timeout functions bound.
C20_StagesInOrder ==
    [][/\ ConnectEnterStep => cl'.stage = "init"
       /\ pc \in ConnectPcs
          => \/ StageRank(cl'.stage) = StageRank(cl.stage) + 1
             \/ cl.stage = "hs" /\ cl'.stage = "hs"
       /\ (pc \in ConnectPcs /\ cl'.stage = "net") => SeededAndLoaded
       /\ (pc \in ConnectPcs /\ cl'.stage = "hs") => (SeededAndLoaded /\ ReadyForHandshake)]_vars

C20_Witness ==
    /\ pc = "c_verify"
    /\ cl.stage = "hs"
    /\ cl.hsCalls
    /\ tlsConnectParams.pRootCALocation
    /\ tlsConnectParams.pDeviceCertLocation
    /\ SeededAndLoaded
    /\ ReadyForHandshake

(* ------------------------------------------------------------------ *)
(* Failures inside iot_tls_connect                                     *)
(* ------------------------------------------------------------------ *)
\* the last engine call of the stage the running or last iot_tls_connect
\* reached has failed: ret is the answer of that call, cl.hsRet the answer
\* of the handshake step
StageFailed ==
    /\ InConnect
    /\ CASE cl.stage = "seed" -> ret # 0
         [] cl.stage = "rootca" -> tlsConnectParams.pRootCALocation /\ ret < 0
         [] cl.stage \in {"devcert", "pkey"} ->
               tlsConnectParams.pDeviceCertLocation /\ ret # 0
         [] cl.stage \in {"net", "conf", "ssl"} -> ret # 0
         [] cl.stage = "hs" ->
               /\ cl.hsRet # 0
               /\ cl.hsRet # MBEDTLS_ERR_SSL_WANT_READ
               /\ cl.hsRet # MBEDTLS_ERR_SSL_WANT_WRITE
         [] OTHER -> FALSE

\* nothing of a stage after the one reached has been done
NoLaterStageActed ==
    /\ StageRank(cl.stage) <= 2
       => (obj["cacert"] = "init" /\ obj["clicert"] = "init" /\ obj["pkey"] = "init")
    /\ StageRank(cl.stage) <= 4 => obj["server_fd"] = "init"
    /\ StageRank(cl.stage) <= 5 => conf = ConfBlank
    /\ StageRank(cl.stage) <= 6 => ssl = SslBlank
    /\ StageRank(cl.stage) <= 7 => ~cl.hsCalls
    /\ StageRank(cl.stage) <= 8 => ~cl.verifyRead

C21_WitnessSeed ==
    /\ StageFailed
    /\ cl.stage = "seed"
    /\ ConnectReturned
    /\ obj["cacert"] = "init"

\* one call of mbedtls_ssl_handshake; cl'.hsRet is its answer
HandshakeStep == pc = "c_hs" /\ cl'.hsCalls /\ cl'.stage = "hs"

\* C22: the handshake step is called again only after would-block-on-read
\* or would-block-on-write; an answer of 0 ends the loop as completed, and
\* every other answer, an engine timeout included, ends the call at once
\* with a failure code.
C22_HandshakeLoopExits ==
    [][/\ HandshakeStep
          => IF cl'.hsRet = 0 THEN pc' = "c_verify"
             ELSE IF cl'.hsRet \in {MBEDTLS_ERR_SSL_WANT_READ, MBEDTLS_ERR_SSL_WANT_WRITE}
             THEN pc' = "c_hs"
             ELSE pc' = "idle" /\ lastRet' = "SSL_CONNECTION_ERROR"
       /\ (HandshakeStep /\ cl.hsCalls)
          => cl.hsRet \in {MBEDTLS_ERR_SSL_WANT_READ, MBEDTLS_ERR_SSL_WANT_WRITE}]_vars

C22_Witness ==
    /\ ConnectReturned
    /\ cl.stage = "hs"
    /\ cl.hsRet = MBEDTLS_ERR_SSL_TIMEOUT
    /\ lastRet = "SSL_CONNECTION_ERROR"
    /\ ~cl.verifyRead

(* ------------------------------------------------------------------ *)
(* The record-read timeout and the installed configuration             *)
(* ------------------------------------------------------------------ *)
\* the read timeout of the configuration is the steady-state value although
\* the caller's handshake timeout is another value
SwappedToSteadyState ==
    /\ tlsConnectParams.timeout_ms # IOT_SSL_READ_TIMEOUT
    /\ conf.read_timeout = IOT_SSL_READ_TIMEOUT

\* the read timeout at the handshake step and after SUCCESS
TimeoutDuringAndAfterHandshake ==
    /\ (InConnect /\ pc = "c_hs") => conf.read_timeout = tlsConnectParams.timeout_ms
    /\ (InConnect /\ cl.stage = "hs") => conf.read_timeout = tlsConnectParams.timeout_ms
    /\ (ConnectReturned /\ lastRet = "SUCCESS") => conf.read_timeout = IOT_SSL_READ_TIMEOUT

\* C23 as claimed: the read timeout is the caller's handshake timeout at
\* every handshake-step call, the steady-state value whenever
\* iot_tls_connect returns SUCCESS, and not swapped to the steady-state value
\* whenever iot_tls_connect returns a failure.
C23_SwappedOnlyOnSuccess ==
    /\ TimeoutDuringAndAfterHandshake
    /\ (ConnectReturned /\ lastRet # "SUCCESS") => ~SwappedToSteadyState

\* C23: the read timeout is the caller's handshake timeout at every
\* handshake-step call and the steady-state value whenever iot_tls_connect
\* returns after a completed handshake, with SUCCESS or with a failed peer
\* verification; it is not swapped when iot_tls_connect returns a failure of
\* an earlier stage.
C23_SwappedOncePastHandshake ==
    /\ TimeoutDuringAndAfterHandshake
    /\ (ConnectReturned /\ cl.stage = "verify") => conf.read_timeout = IOT_SSL_READ_TIMEOUT
    /\ (ConnectReturned /\ lastRet # "SUCCESS" /\ cl.stage # "verify")
       => ~SwappedToSteadyState

C23_Witness ==
    /\ ConnectReturned
    /\ cl.stage = "verify"
    /\ cl.verifyRead
    /\ lastRet = "SSL_CONNECTION_ERROR"
    /\ SwappedToSteadyState

\* the running or last iot_tls_connect has made the configuration calls of
\* lines 297-314
ConfigurationReached == InConnect /\ conf.defaults

\* the configuration calls ended without a failure of mbedtls_ssl_conf_own_cert
OwnCertStepPassed == ConfigurationReached /\ ~(cl.stage = "conf" /\ ret # 0)

\* C24: the authentication mode installed is 'required' iff a root-CA
\* reference was supplied and the caller's verification flag is true, and
\* 'optional' otherwise; the trust-anchor chain is installed iff a root-CA
\* reference was supplied, and the own certificate and key iff a
\* device-certificate reference was supplied.
C24_ConfigurationFollowsParams ==
    /\ ConfigurationReached
       => /\ conf.authmode =
               IF tlsConnectParams.pRootCALocation /\ cl.flagGiven
               THEN "required" ELSE "optional"
          /\ conf.ca_chain = tlsConnectParams.pRootCALocation
          /\ conf.verify_cb
          /\ conf.rng
    /\ OwnCertStepPassed => conf.own_cert = tlsConnectParams.pDeviceCertLocation

C24_Witness ==
    /\ InConnect
    /\ pc = "c_ssl"
    /\ cl.flagGiven
    /\ ~tlsConnectParams.pRootCALocation
    /\ tlsConnectParams.pDeviceCertLocation
    /\ conf.authmode = "optional"
    /\ ~conf.ca_chain
    /\ conf.own_cert

C24_WitnessRequired ==
    /\ InConnect
    /\ pc = "c_ssl"
    /\ conf.authmode = "required"
    /\ conf.ca_chain
    /\ ~conf.own_cert

(* ------------------------------------------------------------------ *)
(* Fatal results, deadlines and call arguments of write and read       *)
(* ------------------------------------------------------------------ *)
\* the last call of mbedtls_ssl_write of the running or last iot_tls_write
\* answered zero or a negative value that is not a would-block
WriteFatalSeen ==
    /\ lastOp = "iot_tls_write"
    /\ wr.calls
    /\ ret <= 0
    /\ ret # MBEDTLS_ERR_SSL_WANT_READ
    /\ ret # MBEDTLS_ERR_SSL_WANT_WRITE

\* C25: after the first answer of mbedtls_ssl_write that is zero or negative
\* and not a would-block, iot_tls_write makes no further call and returns
\* the write-error code, the deadline having passed or not, with *written_len
\* the number of bytes accepted before that answer.
C25_WriteFatalAborts ==
    [][/\ WriteFatalSeen
          => /\ pc \in {"w_done", "idle"}
             /\ wr.isErrorFlag
             /\ pc = "idle"
                => (lastRet = "NETWORK_SSL_WRITE_ERROR" /\ wr.written_len = Accepted)
       /\ (WriteFatalSeen /\ lastOp' = "iot_tls_write" /\ pc # "idle")
          => (wr'.sent = wr.sent /\ ret' = ret /\ pc' \in {"w_done", "idle"})]_vars

C25_Witness ==
    /\ WriteFatalSeen
    /\ WriteReturned
    /\ timerExpired
    /\ Accepted = 1
    /\ wr.len = MaxLen
    /\ wr.written_len = 1
    /\ lastRet = "NETWORK_SSL_WRITE_ERROR"

\* the last call of mbedtls_ssl_read of the running or last iot_tls_read
\* answered a negative value that is neither a would-block nor the engine's
\* timeout
ReadFatalSeen ==
    /\ lastOp = "iot_tls_read"
    /\ rd.calls
    /\ ret < 0
    /\ ret # MBEDTLS_ERR_SSL_WANT_READ
    /\ ret # MBEDTLS_ERR_SSL_WANT_WRITE
    /\ ret # MBEDTLS_ERR_SSL_TIMEOUT

\* C26: the first negative answer of mbedtls_ssl_read that is neither a
\* would-block nor the engine's timeout ends iot_tls_read at once with the
\* read-error code, bytes delivered or not, deadline passed or not; no
\* further call of mbedtls_ssl_read is made.
C26_ReadFatalAborts ==
    ReadFatalSeen => (pc = "idle" /\ lastRet = "NETWORK_SSL_READ_ERROR")

C26_Witness ==
    /\ ReadFatalSeen
    /\ ReadReturned
    /\ timerExpired
    /\ rd.delivered = 1
    /\ lastRet = "NETWORK_SSL_READ_ERROR"

C26_WitnessNothingDelivered ==
    /\ ReadFatalSeen
    /\ ReadReturned
    /\ ~timerExpired
    /\ rd.delivered = 0

\* C27: once the deadline has passed, a running iot_tls_write or
\* iot_tls_read returns, whatever the engine answers; iot_tls_write calls
\* mbedtls_ssl_write at no step that finds the timer expired, and
\* iot_tls_read leaves its loop at the timer test that finds the timer
\* expired and calls mbedtls_ssl_read no more.
C27_DeadlineEndsIo ==
    /\ [][/\ (lastOp = "iot_tls_write" /\ pc # "idle" /\ timerExpired)
             => (wr'.sent = wr.sent /\ wr'.calls = wr.calls /\ ret' = ret)
          /\ (pc = "r_timer" /\ timerExpired) => pc' = "r_done"
          /\ pc = "r_done" => (rd'.delivered = rd.delivered /\ ret' = ret)]_vars
    /\ (pc \in TimedPcs /\ timerExpired) ~> (pc = "idle")

C27_Witness ==
    /\ ReadReturned
    /\ timerExpired
    /\ ~rd.expiredOnEntry
    /\ rd.calls
    /\ ret = MBEDTLS_ERR_SSL_WANT_READ
    /\ lastRet = "NETWORK_SSL_NOTHING_TO_READ"

C27_WitnessWrite ==
    /\ WriteReturned
    /\ timerExpired
    /\ ~wr.expiredOnEntry
    /\ wr.calls
    /\ ret = MBEDTLS_ERR_SSL_WANT_WRITE
    /\ lastRet = "NETWORK_SSL_WRITE_TIMEOUT_ERROR"

\* C28: an iot_tls_read on a buffer of at least one byte calls
\* mbedtls_ssl_read at least once before it looks at the timer, the deadline
\* passed on entry or not: data delivered by that call is not reported as
\* nothing-to-read, and it is reported as SUCCESS when it fills the buffer.
C28_ReadAttemptsOnce ==
    /\ (lastOp = "iot_tls_read" /\ rd.L >= 1 /\ pc \in {"r_timer", "r_done", "idle"})
       => rd.calls
    /\ (ReadReturned /\ rd.delivered > 0) => lastRet # "NETWORK_SSL_NOTHING_TO_READ"
    /\ (ReadReturned /\ rd.L >= 1 /\ rd.delivered = rd.L) => lastRet = "SUCCESS"

C28_Witness ==
    /\ ReadReturned
    /\ rd.expiredOnEntry
    /\ rd.L = MaxLen
    /\ rd.calls
    /\ rd.delivered = MaxLen
    /\ lastRet = "SUCCESS"

\* C29: every call of mbedtls_ssl_write is given an offset written_so_far
\* with 0 <= written_so_far < len and a length len - written_so_far of at
\* least 1, which ends at the end of the payload; every call of
\* mbedtls_ssl_read is given a remaining length of at least 1 that, with the
\* bytes delivered before the call, makes the length of the buffer.
C29_CallArgumentsInBounds ==
    /\ (lastOp = "iot_tls_write" /\ wr.calls)
       => /\ 0 <= wr.off /\ wr.off < wr.len
          /\ wr.n >= 1
          /\ wr.off + wr.n = wr.len
    /\ (lastOp = "iot_tls_read" /\ rd.calls)
       => /\ rd.n >= 1
          /\ (rd.delivered - (IF ret > 0 THEN ret ELSE 0)) + rd.n = rd.L

C29_Witness ==
    /\ lastOp = "iot_tls_write"
    /\ pc = "w_while"
    /\ wr.calls
    /\ wr.off = 2
    /\ wr.n = 1
    /\ wr.len = MaxLen
    /\ ret = MBEDTLS_ERR_SSL_WANT_WRITE

C29_WitnessRead ==
    /\ lastOp = "iot_tls_read"
    /\ pc = "r_timer"
    /\ rd.calls
    /\ rd.L = MaxLen
    /\ rd.n = 1
    /\ rd.delivered = MaxLen

(* ------------------------------------------------------------------ *)
(* Termination of iot_tls_disconnect                                   *)
(* ------------------------------------------------------------------ *)
\* C30: a call of iot_tls_disconnect eventually returns, whatever
\* mbedtls_ssl_close_notify answers, would-block-on-write on every call
\* included.
C30_DisconnectReturns == (pc \in {"d_notify", "d_while"}) ~> (pc = "idle")

====
